---- MODULE Spec2Model ----
(***************************************************************************)
(* A model of the Floresta pytest harness:                                 *)
(*   - BitcoindDirectTest.stop_bitcoind, the three-tier shutdown           *)
(*     escalation of src/pytest/bitcoin_rpc.py;                            *)
(*   - FlorestaTestBase.run_node / detect_ports, the log-based readiness   *)
(*     detection of src/pytest/test_framework/__init__.py;                 *)
(*   - Node.start / Node.stop, add_node and stop_all_nodes, the node       *)
(*     registry and lifecycle of the same file;                            *)
(*   - get_available_random_port, is_option_set and the setup_*_daemon     *)
(*     methods, the default ports and settings of a node.                  *)
(* Each part has its own specification over the shared variables; the      *)
(* variables of the other parts stay at their initial values.              *)
(***************************************************************************)
EXTENDS Integers, Sequences, FiniteSets, TLC

(***************************************************************************)
(* Bounds of the model.                                                    *)
(***************************************************************************)
\* how many times start_bitcoind is called in one run
MaxStarts == 2
\* how many lines the log file holds in one run
MaxLines == 3
\* the default timeout of detect_ports (180 s), scaled to the model's clock
DefaultTimeout == 7
\* a shorter timeout a caller may pass
ShortTimeout == 6
\* how many poll intervals longer than planned a sleep, or the handling of
\* a line, may take
MaxDelay == 1
\* how many nodes one test adds
MaxNodes == 2
\* how many live daemon processes may lose their handle
MaxLeaked == 1
\* the port ranges of add_node span 1000 ports; the model keeps their first
\* port and this many more
RangeWidth == 1
\* how many arguments a test passes as extra_args
MaxArgs == 2

(***************************************************************************)
(* Program constants.  The clock counts poll intervals of 0.1 s.           *)
(***************************************************************************)
\* tls_period = 0.5
TlsPeriod == 5
\* time.sleep(0.1)
SleepTicks == 1
\* time_tls = None
NoTime == -1

VARIABLES
    \* ---- BitcoindDirectTest (bitcoin_rpc.py)
    bpc,               \* position of the caller inside stop_bitcoind
    bitcoind_process,  \* self.bitcoind_process: "None" or "Popen"
    proc,              \* the OS process behind the handle
    btrace,            \* what the current stop_bitcoind call did, in order
    starts,            \* number of start_bitcoind calls so far
    \* ---- FlorestaTestBase.run_node / detect_ports (one call)
    dpc,               \* position of the caller inside run_node / detect_ports
    entry,             \* which operation the test called
    variant,           \* node.variant
    mode,              \* detect_ports' mode
    timeout,           \* detect_ports' timeout
    rtimeout,          \* run_node's timeout
    file,              \* the lines of the test's log file
    bootLen,           \* length of the log when the call began
    seekPos,           \* read position after detect_ports' seek
    pos,               \* read position of log_file
    ports,             \* detect_ports' ports
    now,               \* time.time()
    start_time,        \* detect_ports' start_time
    time_tls,          \* detect_ports' time_tls
    reqDoneAt,         \* when the last required pattern matched
    emittedInTime,     \* every required line was written before the deadline
    daemon,            \* node.daemon: "created" or "running"
    rpc_up,            \* the daemon's RPC server accepts connections
    node_rpc,          \* node.rpc: "None" or "RPC"
    rpc_ports,         \* node.rpc_config["ports"]
    outcome,           \* how the call ended
    listed,            \* the names the TimeoutError message lists
    \* ---- FlorestaTestBase registry and Node lifecycle
    nodes,             \* self._nodes, each Node with its daemon's process
    tpc,               \* position of the test inside a blocking operation
    cur,               \* the node that operation is at
    attempts,          \* the nodes stop_all_nodes has sent a stop to
    last,              \* the last operation the test called and its result
    made,              \* how many Node objects add_node has built
    returned,          \* the nodes add_node returned since setup_method
    leaked,            \* daemon processes that run and have lost their handle
    \* ---- add_node's generated settings
    tls,               \* the tls argument of the test's add_node calls
    settings,          \* per added node, the ports of its default settings
    listening,         \* the added nodes whose daemon holds its ports
    \* ---- get_available_random_port (one call)
    gpc,               \* position of the caller inside the function
    range,             \* its arguments start and end
    drawn,             \* port, as random.randint drew it
    probe,             \* the last connect_ex: its port and its result
    busy,              \* the ports of 127.0.0.1 that accept connections
    \* ---- setup_*_daemon (one call)
    extra_args,        \* the caller's extra_args
    daemon_settings,   \* the settings the daemon was given, in order
    built              \* the setup method has run

stopVars == <<bpc, bitcoind_process, proc, btrace, starts>>

detVars == <<dpc, entry, variant, mode, timeout, rtimeout, file, bootLen,
             seekPos, pos, ports, now, start_time, time_tls, reqDoneAt,
             emittedInTime, daemon, rpc_up, node_rpc, rpc_ports, outcome,
             listed>>

nodeVars == <<nodes, tpc, cur, attempts, last, made, returned, leaked>>

portVars == <<tls, settings, listening>>

allocVars == <<gpc, range, drawn, probe, busy>>

argVars == <<extra_args, daemon_settings, built>>

vars == <<stopVars, detVars, nodeVars, portVars, allocVars, argVars>>

\* The variants add_node, run_node and detect_ports know.
Variants == {"florestad", "utreexod", "bitcoind"}

(***************************************************************************)
(* BitcoindDirectTest: start_bitcoind, stop_bitcoind and the process.      *)
(***************************************************************************)
\* What a bitcoind process may do: honour the RPC stop request, honour
\* SIGTERM, exit on its own.  SIGKILL cannot be ignored.
Behaviours == SUBSET {"stop", "term", "crash"}

NoProc == [state |-> "none", obeys |-> {}, got |-> {}]

StopIdle ==
    /\ bpc = "idle"
    /\ bitcoind_process = "None"
    /\ proc = NoProc
    /\ btrace = <<>>
    /\ starts = 0

\* start_bitcoind: Popen and keep the handle.  The caller (run_test) starts
\* one process per handle.
StartBitcoind ==
    /\ bpc = "idle"
    /\ bitcoind_process = "None"
    /\ starts < MaxStarts
    /\ \E b \in Behaviours :
           proc' = [state |-> "running", obeys |-> b, got |-> {}]
    /\ bitcoind_process' = "Popen"
    /\ starts' = starts + 1
    /\ btrace' = <<>>
    /\ UNCHANGED <<bpc, dpc, entry, variant, mode, timeout, rtimeout, file,
                   bootLen, seekPos, pos, ports, now, start_time, time_tls,
                   reqDoneAt, emittedInTime, daemon, rpc_up, node_rpc,
                   rpc_ports, outcome, listed, nodes, tpc, cur, attempts,
                   last, made, returned, leaked, tls, settings, listening,
                   gpc, range, drawn, probe, busy, extra_args,
                   daemon_settings, built>>

\* The process exits: on its own, or because of a request it honours, or
\* because it was sent SIGKILL.
MayExit(p) ==
    /\ p.state = "running"
    /\ \/ "crash" \in p.obeys
       \/ "kill" \in p.got
       \/ (p.got \cap p.obeys) # {}

ProcExit ==
    /\ MayExit(proc)
    /\ proc' = [proc EXCEPT !.state = "exited"]
    /\ UNCHANGED <<bpc, bitcoind_process, btrace, starts, dpc, entry,
                   variant, mode, timeout, rtimeout, file, bootLen, seekPos,
                   pos, ports, now, start_time, time_tls, reqDoneAt,
                   emittedInTime, daemon, rpc_up, node_rpc, rpc_ports,
                   outcome, listed, nodes, tpc, cur, attempts, last, made,
                   returned, leaked, tls, settings, listening, gpc, range,
                   drawn, probe, busy, extra_args, daemon_settings, built>>

\* stop_bitcoind, line 136: nothing to do without a handle.
StopEnter ==
    /\ bpc = "idle"
    /\ IF bitcoind_process # "None"
         THEN /\ bpc' = "rpc_stop"
              /\ btrace' = <<>>
         ELSE /\ bpc' = "idle"
              /\ btrace' = <<"noop">>
    /\ UNCHANGED <<bitcoind_process, proc, starts, dpc, entry, variant, mode,
                   timeout, rtimeout, file, bootLen, seekPos, pos, ports,
                   now, start_time, time_tls, reqDoneAt, emittedInTime,
                   daemon, rpc_up, node_rpc, rpc_ports, outcome, listed,
                   nodes, tpc, cur, attempts, last, made, returned, leaked,
                   tls, settings, listening, gpc, range, drawn, probe, busy,
                   extra_args, daemon_settings, built>>

\* A variant of the stop request whose failure goes straight to the kill
\* signal.
StopRpcCallThenKill ==
    /\ bpc = "rpc_stop"
    /\ \/ /\ proc.state = "running"
          /\ proc' = [proc EXCEPT !.got = @ \cup {"stop"}]
          /\ btrace' = Append(btrace, "stop_ok")
          /\ bpc' = "wait15"
       \/ /\ UNCHANGED proc
          /\ btrace' = Append(btrace, "stop_raised")
          /\ bpc' = "kill"
    /\ UNCHANGED <<bitcoind_process, starts, dpc, entry, variant, mode,
                   timeout, rtimeout, file, bootLen, seekPos, pos, ports,
                   now, start_time, time_tls, reqDoneAt, emittedInTime,
                   daemon, rpc_up, node_rpc, rpc_ports, outcome, listed,
                   nodes, tpc, cur, attempts, last, made, returned, leaked,
                   tls, settings, listening, gpc, range, drawn, probe, busy,
                   extra_args, daemon_settings, built>>

\* line 139: rpc_call("stop", timeout=10).  It returns when bitcoin-cli
\* delivered the request; it raises when bitcoin-cli failed or timed out
\* (the request may or may not have reached the daemon).
StopRpcCall ==
    /\ bpc = "rpc_stop"
    /\ \/ /\ proc.state = "running"
          /\ proc' = [proc EXCEPT !.got = @ \cup {"stop"}]
          /\ btrace' = Append(btrace, "stop_ok")
          /\ bpc' = "wait15"
       \/ /\ \E delivered \in BOOLEAN :
                proc' = IF delivered /\ proc.state = "running"
                          THEN [proc EXCEPT !.got = @ \cup {"stop"}]
                          ELSE proc
          /\ btrace' = Append(btrace, "stop_raised")
          /\ bpc' = "terminate"
    /\ UNCHANGED <<bitcoind_process, starts, dpc, entry, variant, mode,
                   timeout, rtimeout, file, bootLen, seekPos, pos, ports,
                   now, start_time, time_tls, reqDoneAt, emittedInTime,
                   daemon, rpc_up, node_rpc, rpc_ports, outcome, listed,
                   nodes, tpc, cur, attempts, last, made, returned, leaked,
                   tls, settings, listening, gpc, range, drawn, probe, busy,
                   extra_args, daemon_settings, built>>

\* A variant of the graceful wait that escalates even after a clean exit.
GracefulWaitAlwaysEscalates ==
    \/ /\ proc.state = "exited"
       /\ btrace' = Append(btrace, "wait15_exited")
       /\ bpc' = "terminate"
    \/ /\ proc.state = "running"
       /\ btrace' = Append(btrace, "wait15_timeout")
       /\ bpc' = "terminate"

\* line 141: bitcoind_process.wait(timeout=15).
GracefulWaitBody ==
    \/ /\ proc.state = "exited"
       /\ btrace' = Append(btrace, "wait15_exited")
       /\ bpc' = "clear"
    \/ /\ proc.state = "running"
       /\ btrace' = Append(btrace, "wait15_timeout")
       /\ bpc' = "terminate"

GracefulWait ==
    /\ bpc = "wait15"
    /\ GracefulWaitBody
    /\ UNCHANGED <<bitcoind_process, proc, starts, dpc, entry, variant, mode,
                   timeout, rtimeout, file, bootLen, seekPos, pos, ports,
                   now, start_time, time_tls, reqDoneAt, emittedInTime,
                   daemon, rpc_up, node_rpc, rpc_ports, outcome, listed,
                   nodes, tpc, cur, attempts, last, made, returned, leaked,
                   tls, settings, listening, gpc, range, drawn, probe, busy,
                   extra_args, daemon_settings, built>>

\* line 145: bitcoind_process.terminate() (SIGTERM; nothing is sent to a
\* process that has already exited).
Terminate ==
    /\ bpc = "terminate"
    /\ proc' = IF proc.state = "running"
                 THEN [proc EXCEPT !.got = @ \cup {"term"}]
                 ELSE proc
    /\ btrace' = Append(btrace, "terminate")
    /\ bpc' = "wait10"
    /\ UNCHANGED <<bitcoind_process, starts, dpc, entry, variant, mode,
                   timeout, rtimeout, file, bootLen, seekPos, pos, ports,
                   now, start_time, time_tls, reqDoneAt, emittedInTime,
                   daemon, rpc_up, node_rpc, rpc_ports, outcome, listed,
                   nodes, tpc, cur, attempts, last, made, returned, leaked,
                   tls, settings, listening, gpc, range, drawn, probe, busy,
                   extra_args, daemon_settings, built>>

\* line 147: bitcoind_process.wait(timeout=10).
TermWait ==
    /\ bpc = "wait10"
    /\ \/ /\ proc.state = "exited"
          /\ btrace' = Append(btrace, "wait10_exited")
          /\ bpc' = "clear"
       \/ /\ proc.state = "running"
          /\ btrace' = Append(btrace, "wait10_timeout")
          /\ bpc' = "kill"
    /\ UNCHANGED <<bitcoind_process, proc, starts, dpc, entry, variant, mode,
                   timeout, rtimeout, file, bootLen, seekPos, pos, ports,
                   now, start_time, time_tls, reqDoneAt, emittedInTime,
                   daemon, rpc_up, node_rpc, rpc_ports, outcome, listed,
                   nodes, tpc, cur, attempts, last, made, returned, leaked,
                   tls, settings, listening, gpc, range, drawn, probe, busy,
                   extra_args, daemon_settings, built>>

\* A variant of the last tier that never sends the kill signal.
KillBodyNoSignal ==
    /\ proc' = proc
    /\ btrace' = Append(btrace, "kill")
    /\ bpc' = "waitkill"

\* line 151: bitcoind_process.kill().
KillBody ==
    /\ proc' = IF proc.state = "running"
                 THEN [proc EXCEPT !.got = @ \cup {"kill"}]
                 ELSE proc
    /\ btrace' = Append(btrace, "kill")
    /\ bpc' = "waitkill"

Kill ==
    /\ bpc = "kill"
    /\ KillBody
    /\ UNCHANGED <<bitcoind_process, starts, dpc, entry, variant, mode,
                   timeout, rtimeout, file, bootLen, seekPos, pos, ports,
                   now, start_time, time_tls, reqDoneAt, emittedInTime,
                   daemon, rpc_up, node_rpc, rpc_ports, outcome, listed,
                   nodes, tpc, cur, attempts, last, made, returned, leaked,
                   tls, settings, listening, gpc, range, drawn, probe, busy,
                   extra_args, daemon_settings, built>>

\* line 152: bitcoind_process.wait(), no timeout: blocks until the exit.
KillWait ==
    /\ bpc = "waitkill"
    /\ proc.state = "exited"
    /\ btrace' = Append(btrace, "reaped")
    /\ bpc' = "clear"
    /\ UNCHANGED <<bitcoind_process, proc, starts, dpc, entry, variant, mode,
                   timeout, rtimeout, file, bootLen, seekPos, pos, ports,
                   now, start_time, time_tls, reqDoneAt, emittedInTime,
                   daemon, rpc_up, node_rpc, rpc_ports, outcome, listed,
                   nodes, tpc, cur, attempts, last, made, returned, leaked,
                   tls, settings, listening, gpc, range, drawn, probe, busy,
                   extra_args, daemon_settings, built>>

\* line 155: self.bitcoind_process = None.
ClearHandle ==
    /\ bpc = "clear"
    /\ bitcoind_process' = "None"
    /\ btrace' = Append(btrace, "cleared")
    /\ bpc' = "idle"
    /\ UNCHANGED <<proc, starts, dpc, entry, variant, mode, timeout,
                   rtimeout, file, bootLen, seekPos, pos, ports, now,
                   start_time, time_tls, reqDoneAt, emittedInTime, daemon,
                   rpc_up, node_rpc, rpc_ports, outcome, listed, nodes, tpc,
                   cur, attempts, last, made, returned, leaked, tls,
                   settings, listening, gpc, range, drawn, probe, busy,
                   extra_args, daemon_settings, built>>

StopStep ==
    \/ StopRpcCall
    \/ GracefulWait
    \/ Terminate
    \/ TermWait
    \/ Kill
    \/ KillWait
    \/ ClearHandle

NextStop ==
    \/ StartBitcoind
    \/ ProcExit
    \/ StopEnter
    \/ StopStep

(***************************************************************************)
(* Node and the registry of FlorestaTestBase: add_node, setup_method,      *)
(* Node.start, Node.stop, run_node, stop_all_nodes.                        *)
(***************************************************************************)
\* Node(daemon, rpc=None, ...) as add_node builds it, the id-th object of
\* the test.  process is the state of daemon.process ("None" before the
\* first start); stopped records that a stop of the node has been carried
\* out.
NewNode(id) ==
    [id |-> id, process |-> "None", rpc |-> "None", stopped |-> FALSE]

\* What the test sees of a call: the operation, the node (its index in
\* _nodes), the result, what the node was like when it was called, and the
\* stop request or signal the call last sent to a daemon process.
NoOp == [op |-> "none", node |-> 0, result |-> "none",
         wasRunning |-> FALSE, hadRpc |-> FALSE, sent |-> "none"]

Called(op, i, result, sent) ==
    [op |-> op, node |-> i, result |-> result,
     wasRunning |-> nodes[i].process = "running",
     hadRpc |-> nodes[i].rpc # "None",
     sent |-> sent]

NodesIdle ==
    /\ nodes = <<>>
    /\ tpc = "idle"
    /\ cur = 0
    /\ attempts = <<>>
    /\ last = NoOp
    /\ made = 0
    /\ returned = <<>>
    /\ leaked = 0

\* daemon.is_running: the daemon has a process and it has not exited.
IsRunning(n) == n.process = "running"

\* daemon.start(): a new process.  The handle of the previous one is lost;
\* if that one still runs, it is one more process without a handle.
Spawn(i) ==
    /\ nodes' = [nodes EXCEPT ![i].process = "running"]
    /\ leaked' = IF IsRunning(nodes[i]) THEN leaked + 1 ELSE leaked

\* A variant of add_node that registers the node before it looks at the
\* variant.
AddNodeRegistersFirst(env_set, v) ==
    /\ made < MaxNodes
    /\ nodes' = Append(nodes, NewNode(made + 1))
    /\ made' = made + 1
    /\ IF env_set /\ v \in Variants
         THEN /\ returned' = Append(returned, made + 1)
              /\ last' = [NoOp EXCEPT !.op = "add_node", !.node = Len(nodes) + 1,
                                      !.result = "returned"]
         ELSE /\ last' = [NoOp EXCEPT !.op = "add_node", !.result = "ValueError"]
              /\ UNCHANGED returned

\* add_node, lines 335-365.  get_integration_test_dir (line 344) raises
\* RuntimeError when FLORESTA_TEMP_DIR is not set, an unsupported variant
\* ends in ValueError (lines 358-361); otherwise the node is built,
\* appended to _nodes and returned.
AddNodeBody(env_set, v) ==
    IF ~env_set
      THEN /\ last' = [NoOp EXCEPT !.op = "add_node", !.result = "RuntimeError"]
           /\ UNCHANGED <<nodes, made, returned>>
      ELSE IF v \notin Variants
             THEN /\ last' = [NoOp EXCEPT !.op = "add_node", !.result = "ValueError"]
                  /\ UNCHANGED <<nodes, made, returned>>
             ELSE /\ nodes' = Append(nodes, NewNode(made + 1))
                  /\ made' = made + 1
                  /\ returned' = Append(returned, made + 1)
                  /\ last' = [NoOp EXCEPT !.op = "add_node", !.node = Len(nodes) + 1,
                                          !.result = "returned"]

AddNode ==
    /\ tpc = "idle"
    /\ \E env_set \in BOOLEAN, v \in {variant, "unsupported"} :
           /\ (env_set /\ v \in Variants) => made < MaxNodes
           /\ AddNodeBody(env_set, v)
    /\ UNCHANGED <<bpc, bitcoind_process, proc, btrace, starts, dpc, entry,
                   variant, mode, timeout, rtimeout, file, bootLen, seekPos,
                   pos, ports, now, start_time, time_tls, reqDoneAt,
                   emittedInTime, daemon, rpc_up, node_rpc, rpc_ports,
                   outcome, listed, tpc, cur, attempts, leaked, tls,
                   settings, listening, gpc, range, drawn, probe, busy,
                   extra_args, daemon_settings, built>>

\* setup_method, lines 109-111.
SetupMethod ==
    /\ tpc = "idle"
    /\ nodes' = <<>>
    /\ returned' = <<>>
    /\ last' = [NoOp EXCEPT !.op = "setup_method", !.result = "returned"]
    /\ UNCHANGED <<bpc, bitcoind_process, proc, btrace, starts, dpc, entry,
                   variant, mode, timeout, rtimeout, file, bootLen, seekPos,
                   pos, ports, now, start_time, time_tls, reqDoneAt,
                   emittedInTime, daemon, rpc_up, node_rpc, rpc_ports,
                   outcome, listed, tpc, cur, attempts, made, leaked, tls,
                   settings, listening, gpc, range, drawn, probe, busy,
                   extra_args, daemon_settings, built>>

\* get_node, lines 367-373.
get_node(index) ==
    IF index < 0 \/ index >= Len(nodes)
      THEN "IndexError"
      ELSE nodes[index + 1]

\* A variant of Node.start without the is_running test.
NodeStartUnguarded(i) ==
    /\ leaked < MaxLeaked
    /\ Spawn(i)
    /\ \E r \in {"returned", "TimeoutError"} :
           last' = Called("Node.start", i,
                          IF nodes[i].rpc = "None" THEN "AttributeError" ELSE r, "none")

\* Node.start, lines 49-54.  With rpc still None, line 54 raises after the
\* daemon was started.
NodeStartBody(i) ==
    IF IsRunning(nodes[i])
      THEN /\ last' = Called("Node.start", i, "RuntimeError", "none")
           /\ UNCHANGED <<nodes, leaked>>
      ELSE /\ Spawn(i)
           /\ \E r \in {"returned", "TimeoutError"} :
                  last' = Called("Node.start", i,
                                 IF nodes[i].rpc = "None" THEN "AttributeError" ELSE r,
                                 "none")

NodeStart(i) ==
    /\ tpc = "idle"
    /\ NodeStartBody(i)
    /\ UNCHANGED <<bpc, bitcoind_process, proc, btrace, starts, dpc, entry,
                   variant, mode, timeout, rtimeout, file, bootLen, seekPos,
                   pos, ports, now, start_time, time_tls, reqDoneAt,
                   emittedInTime, daemon, rpc_up, node_rpc, rpc_ports,
                   outcome, listed, tpc, cur, attempts, made, returned, tls,
                   settings, listening, gpc, range, drawn, probe, busy,
                   extra_args, daemon_settings, built>>

\* run_node, lines 445-463: daemon.start() without a test, then detect_ports,
\* the RPC client, and the wait for the RPC port.  detect_ports either
\* returns or raises TimeoutError (before node.rpc is set); the wait raises
\* after node.rpc is set.
RunNode(i) ==
    /\ tpc = "idle"
    /\ IsRunning(nodes[i]) => leaked < MaxLeaked
    /\ \E r \in {"returned", "TimeoutError", "RpcTimeout"} :
           /\ nodes' = [nodes EXCEPT ![i].process = "running",
                                     ![i].rpc = IF r = "TimeoutError" THEN @ ELSE "RPC"]
           /\ leaked' = IF IsRunning(nodes[i]) THEN leaked + 1 ELSE leaked
           /\ last' = Called("run_node", i, r, "none")
    /\ UNCHANGED <<bpc, bitcoind_process, proc, btrace, starts, dpc, entry,
                   variant, mode, timeout, rtimeout, file, bootLen, seekPos,
                   pos, ports, now, start_time, time_tls, reqDoneAt,
                   emittedInTime, daemon, rpc_up, node_rpc, rpc_ports,
                   outcome, listed, tpc, cur, attempts, made, returned, tls,
                   settings, listening, gpc, range, drawn, probe, busy,
                   extra_args, daemon_settings, built>>

\* A daemon process exits: after a stop request or a signal, or on its own.
ProcessExit(i) ==
    /\ nodes[i].process = "running"
    /\ nodes' = [nodes EXCEPT ![i].process = "exited"]
    /\ UNCHANGED <<bpc, bitcoind_process, proc, btrace, starts, dpc, entry,
                   variant, mode, timeout, rtimeout, file, bootLen, seekPos,
                   pos, ports, now, start_time, time_tls, reqDoneAt,
                   emittedInTime, daemon, rpc_up, node_rpc, rpc_ports,
                   outcome, listed, tpc, cur, attempts, last, made, returned,
                   leaked, tls, settings, listening, gpc, range, drawn,
                   probe, busy, extra_args, daemon_settings, built>>

\* A variant of Node.stop without the is_running test.
NodeStopUnguarded(i) ==
    /\ last' = Called("Node.stop", i, "waiting", "rpc_stop")
    /\ tpc' = "process_wait"
    /\ cur' = i

\* Node.stop, lines 56-63, up to the wait for the process.  rpc.stop() and
\* rpc.wait_for_connections(opened=False) may raise; nothing catches it.
NodeStopBody(i) ==
    IF IsRunning(nodes[i])
      THEN IF nodes[i].rpc = "None"
             THEN /\ last' = Called("Node.stop", i, "AttributeError", "none")
                  /\ UNCHANGED <<tpc, cur>>
             ELSE \/ /\ last' = Called("Node.stop", i, "RpcError", "none")
                     /\ UNCHANGED <<tpc, cur>>
                  \/ /\ last' = Called("Node.stop", i, "TimeoutError", "rpc_stop")
                     /\ UNCHANGED <<tpc, cur>>
                  \/ /\ last' = Called("Node.stop", i, "waiting", "rpc_stop")
                     /\ tpc' = "process_wait"
                     /\ cur' = i
      ELSE /\ last' = Called("Node.stop", i, "None", "none")
           /\ UNCHANGED <<tpc, cur>>

NodeStop(i) ==
    /\ tpc = "idle"
    /\ NodeStopBody(i)
    /\ UNCHANGED <<bpc, bitcoind_process, proc, btrace, starts, dpc, entry,
                   variant, mode, timeout, rtimeout, file, bootLen, seekPos,
                   pos, ports, now, start_time, time_tls, reqDoneAt,
                   emittedInTime, daemon, rpc_up, node_rpc, rpc_ports,
                   outcome, listed, nodes, attempts, made, returned, leaked,
                   tls, settings, listening, gpc, range, drawn, probe, busy,
                   extra_args, daemon_settings, built>>

\* Node.stop, lines 61-62: daemon.process.wait() has no timeout and returns
\* when the process has exited.
NodeStopWait ==
    /\ tpc = "process_wait"
    /\ nodes[cur].process = "exited"
    /\ nodes' = [nodes EXCEPT ![cur].stopped = TRUE]
    /\ last' = [last EXCEPT !.result = "returned"]
    /\ tpc' = "idle"
    /\ UNCHANGED <<bpc, bitcoind_process, proc, btrace, starts, dpc, entry,
                   variant, mode, timeout, rtimeout, file, bootLen, seekPos,
                   pos, ports, now, start_time, time_tls, reqDoneAt,
                   emittedInTime, daemon, rpc_up, node_rpc, rpc_ports,
                   outcome, listed, cur, attempts, made, returned, leaked,
                   tls, settings, listening, gpc, range, drawn, probe, busy,
                   extra_args, daemon_settings, built>>

\* The sigcode arguments of send_kill_signal: two names of the signal
\* module, and a name it does not have.
Sigcodes == {"SIGTERM", "SIGKILL", "SIGBOGUS"}

\* line 85: getattr(signal, sigcode, signal.SIGTERM)
SignalOf(sigcode) ==
    IF sigcode \in {"SIGTERM", "SIGKILL"} THEN sigcode ELSE "SIGTERM"

\* line 85, os.kill(pid, sig) on the pid of a process in state p: a running
\* process gets the signal; for a process that has exited the call either
\* succeeds without effect (the process is not reaped yet) or raises
\* ProcessLookupError (no process has the pid any more).
os_kill(p, sig) ==
    IF p = "running"
      THEN {[result |-> "returned", sent |-> sig]}
      ELSE {[result |-> "returned", sent |-> "none"],
            [result |-> "ProcessLookupError", sent |-> "none"]}

\* A variant of the with block that suppresses nothing.
suppress_nothing(e) == e

\* line 83: with contextlib.suppress(ProcessLookupError)
suppress(e) == IF e = "ProcessLookupError" THEN "returned" ELSE e

\* Node.send_kill_signal, lines 81-85.  Without a process, the read of
\* daemon.process.pid raises AttributeError, which is not suppressed.
send_kill_signal(i, sigcode) ==
    IF nodes[i].process = "None"
      THEN last' = Called("send_kill_signal", i, "AttributeError", "none")
      ELSE \E o \in os_kill(nodes[i].process, SignalOf(sigcode)) :
               last' = Called("send_kill_signal", i, suppress(o.result), o.sent)

\* A test calls node.send_kill_signal(sigcode).
SendKillSignal(i, sigcode) ==
    /\ tpc = "idle"
    /\ send_kill_signal(i, sigcode)
    /\ UNCHANGED <<bpc, bitcoind_process, proc, btrace, starts, dpc, entry,
                   variant, mode, timeout, rtimeout, file, bootLen, seekPos,
                   pos, ports, now, start_time, time_tls, reqDoneAt,
                   emittedInTime, daemon, rpc_up, node_rpc, rpc_ports,
                   outcome, listed, nodes, tpc, cur, attempts, made,
                   returned, leaked, tls, settings, listening, gpc, range,
                   drawn, probe, busy, extra_args, daemon_settings, built>>

\* stop_all_nodes, lines 119-120.
StopAllEnter ==
    /\ tpc = "idle"
    /\ attempts' = <<>>
    /\ IF nodes = <<>>
         THEN /\ last' = [NoOp EXCEPT !.op = "stop_all_nodes", !.result = "returned"]
              /\ UNCHANGED <<tpc, cur>>
         ELSE /\ last' = [NoOp EXCEPT !.op = "stop_all_nodes", !.result = "running"]
              /\ tpc' = "stop_all"
              /\ cur' = 1
    /\ UNCHANGED <<bpc, bitcoind_process, proc, btrace, starts, dpc, entry,
                   variant, mode, timeout, rtimeout, file, bootLen, seekPos,
                   pos, ports, now, start_time, time_tls, reqDoneAt,
                   emittedInTime, daemon, rpc_up, node_rpc, rpc_ports,
                   outcome, listed, nodes, made, returned, leaked, tls,
                   settings, listening, gpc, range, drawn, probe, busy,
                   extra_args, daemon_settings, built>>

\* What the try of lines 122-130 sends to a node's process: with an RPC
\* client the stop RPC, or nothing when rpc.stop() raised; without one
\* SIGTERM, or SIGKILL when sending SIGTERM raised something else than
\* ProcessLookupError.  Nothing in it waits for the process to exit.
StopRequests(n) ==
    IF n.rpc # "None"
      THEN {"rpc_stop", "none"}
      ELSE {"SIGTERM", "SIGKILL"}

\* stop_all_nodes, one iteration (lines 120-132).  Line 121 reads
\* node.daemon.process.pid outside the try; inside it, a failing RPC stop is
\* logged, and a node without RPC client is sent a signal.
StopAllBody ==
    IF nodes[cur].process = "None"
      THEN /\ last' = [last EXCEPT !.node = cur, !.result = "AttributeError"]
           /\ tpc' = "idle"
           /\ UNCHANGED <<nodes, attempts, cur>>
      ELSE /\ attempts' = Append(attempts, cur)
           /\ nodes' = [nodes EXCEPT ![cur].stopped = TRUE]
           /\ \E r \in StopRequests(nodes[cur]) :
                  IF cur < Len(nodes)
                    THEN /\ cur' = cur + 1
                         /\ last' = [last EXCEPT !.sent = r]
                         /\ UNCHANGED tpc
                    ELSE /\ tpc' = "idle"
                         /\ last' = [last EXCEPT !.sent = r, !.result = "returned"]
                         /\ UNCHANGED cur

StopAllStep ==
    /\ tpc = "stop_all"
    /\ StopAllBody
    /\ UNCHANGED <<bpc, bitcoind_process, proc, btrace, starts, dpc, entry,
                   variant, mode, timeout, rtimeout, file, bootLen, seekPos,
                   pos, ports, now, start_time, time_tls, reqDoneAt,
                   emittedInTime, daemon, rpc_up, node_rpc, rpc_ports,
                   outcome, listed, made, returned, leaked, tls, settings,
                   listening, gpc, range, drawn, probe, busy, extra_args,
                   daemon_settings, built>>

Next ==
    \/ AddNode
    \/ SetupMethod
    \/ \E i \in 1..Len(nodes) : NodeStart(i)
    \/ \E i \in 1..Len(nodes) : RunNode(i)
    \/ \E i \in 1..Len(nodes) : ProcessExit(i)
    \/ \E i \in 1..Len(nodes) : NodeStop(i)
    \/ NodeStopWait
    \/ \E i \in 1..Len(nodes), sigcode \in Sigcodes : SendKillSignal(i, sigcode)
    \/ StopAllEnter
    \/ StopAllStep

(***************************************************************************)
(* add_node's default ports: get_available_random_port and the setup_*     *)
(* methods that call it.                                                   *)
(***************************************************************************)
PortsIdle ==
    /\ settings = <<>>
    /\ listening = {}

\* The flags a setup method generates a port for when extra_args is empty:
\* setup_florestad_daemon, setup_utreexod_daemon, setup_bitcoind_daemon.
Purposes(v, t) ==
    CASE v = "florestad" -> {"rpc", "electrum"} \cup (IF t THEN {"electrum_tls"} ELSE {})
      [] v = "utreexod"  -> {"peer", "rpc", "electrum"} \cup (IF t THEN {"electrum_tls"} ELSE {})
      [] v = "bitcoind"  -> {"peer", "rpc"}

\* The first port of the range each flag draws from.
RangeStart(v, purpose) ==
    CASE purpose = "peer"         -> IF v = "utreexod" THEN 18444 ELSE 18445
      [] purpose = "rpc"          -> IF v = "bitcoind" THEN 20443 ELSE 18443
      [] purpose = "electrum"     -> 20001
      [] purpose = "electrum_tls" -> 20002

\* Its last port, 1000 above the first in the source.
RangeEnd(v, purpose) == RangeStart(v, purpose) + RangeWidth

\* The ports a connection to 127.0.0.1 succeeds on: those of running daemons.
Bound == UNION {{settings[i].ports[k] : k \in DOMAIN settings[i].ports} : i \in listening}

\* get_available_random_port(start, end): the values it can return, a port
\* of the range on which connect_ex fails.
get_available_random_port(start, end) == {p \in start..end : p \notin Bound}

\* The values one flag of a setup method can get: a port drawn from the
\* flag's range, or none (0) when the variant has no such flag.
DefaultPort(v, t, purpose) ==
    IF purpose \in Purposes(v, t)
      THEN get_available_random_port(RangeStart(v, purpose), RangeEnd(v, purpose))
      ELSE {0}

\* add_node(variant=variant, tls=tls) with no extra_args: one call of
\* get_available_random_port per flag, in the order of the setup method,
\* and the node is registered.
add_node ==
    /\ Len(settings) < MaxNodes
    /\ \E peer \in DefaultPort(variant, tls, "peer") :
       \E rpc \in DefaultPort(variant, tls, "rpc") :
       \E electrum \in DefaultPort(variant, tls, "electrum") :
       \E electrum_tls \in DefaultPort(variant, tls, "electrum_tls") :
           LET all == [peer |-> peer, rpc |-> rpc, electrum |-> electrum,
                       electrum_tls |-> electrum_tls]
           IN  settings' = Append(settings,
                   [variant |-> variant,
                    ports |-> [k \in Purposes(variant, tls) |-> all[k]]])
    /\ UNCHANGED <<bpc, bitcoind_process, proc, btrace, starts, dpc, entry,
                   variant, mode, timeout, rtimeout, file, bootLen, seekPos,
                   pos, ports, now, start_time, time_tls, reqDoneAt,
                   emittedInTime, daemon, rpc_up, node_rpc, rpc_ports,
                   outcome, listed, nodes, tpc, cur, attempts, last, made,
                   returned, leaked, tls, listening, gpc, range, drawn,
                   probe, busy, extra_args, daemon_settings, built>>

\* The daemon of an added node is started and opens its ports.
DaemonListens(i) ==
    /\ i \notin listening
    /\ listening' = listening \cup {i}
    /\ UNCHANGED <<bpc, bitcoind_process, proc, btrace, starts, dpc, entry,
                   variant, mode, timeout, rtimeout, file, bootLen, seekPos,
                   pos, ports, now, start_time, time_tls, reqDoneAt,
                   emittedInTime, daemon, rpc_up, node_rpc, rpc_ports,
                   outcome, listed, nodes, tpc, cur, attempts, last, made,
                   returned, leaked, tls, settings, gpc, range, drawn, probe,
                   busy, extra_args, daemon_settings, built>>

\* The daemon of an added node exits and its ports are free again.
DaemonCloses(i) ==
    /\ i \in listening
    /\ listening' = listening \ {i}
    /\ UNCHANGED <<bpc, bitcoind_process, proc, btrace, starts, dpc, entry,
                   variant, mode, timeout, rtimeout, file, bootLen, seekPos,
                   pos, ports, now, start_time, time_tls, reqDoneAt,
                   emittedInTime, daemon, rpc_up, node_rpc, rpc_ports,
                   outcome, listed, nodes, tpc, cur, attempts, last, made,
                   returned, leaked, tls, settings, gpc, range, drawn, probe,
                   busy, extra_args, daemon_settings, built>>

NextPorts ==
    \/ add_node
    \/ \E i \in 1..Len(settings) : DaemonListens(i)
    \/ \E i \in 1..Len(settings) : DaemonCloses(i)

(***************************************************************************)
(* get_available_random_port, one call step by step, while other           *)
(* processes of the host bind and release ports.                           *)
(***************************************************************************)
\* The ports of the model: the first ports of the RPC range of add_node.
Ports == 18443..(18443 + RangeWidth + 1)

\* connect_ex returns 0 when the connection opened and an errno otherwise.
ECONNREFUSED == 111

NoProbe == [port |-> 0, result |-> 0, bound |-> FALSE]

AllocIdle ==
    /\ gpc = "idle"
    /\ range = [start |-> 0, end |-> 0]
    /\ drawn = 0
    /\ probe = NoProbe
    /\ busy = {}

\* A caller calls get_available_random_port(start, end).
GetPortCall ==
    /\ gpc \in {"idle", "returned", "raised"}
    /\ \E s \in Ports, e \in Ports : range' = [start |-> s, end |-> e]
    /\ drawn' = 0
    /\ probe' = NoProbe
    /\ gpc' = "randint"
    /\ UNCHANGED <<bpc, bitcoind_process, proc, btrace, starts, dpc, entry,
                   variant, mode, timeout, rtimeout, file, bootLen, seekPos,
                   pos, ports, now, start_time, time_tls, reqDoneAt,
                   emittedInTime, daemon, rpc_up, node_rpc, rpc_ports,
                   outcome, listed, nodes, tpc, cur, attempts, last, made,
                   returned, leaked, tls, settings, listening, busy,
                   extra_args, daemon_settings, built>>

\* line 158: port = random.randint(start, end), which raises ValueError on
\* an empty range.
RandInt ==
    /\ gpc = "randint"
    /\ IF range.start > range.end
         THEN /\ gpc' = "raised"
              /\ UNCHANGED drawn
         ELSE /\ \E p \in range.start..range.end : drawn' = p
              /\ gpc' = "connect"
    /\ UNCHANGED <<bpc, bitcoind_process, proc, btrace, starts, dpc, entry,
                   variant, mode, timeout, rtimeout, file, bootLen, seekPos,
                   pos, ports, now, start_time, time_tls, reqDoneAt,
                   emittedInTime, daemon, rpc_up, node_rpc, rpc_ports,
                   outcome, listed, nodes, tpc, cur, attempts, last, made,
                   returned, leaked, tls, settings, listening, range, probe,
                   busy, extra_args, daemon_settings, built>>

\* s.connect_ex(("127.0.0.1", port))
connect_ex(p) == IF p \in busy THEN 0 ELSE ECONNREFUSED

\* A variant of lines 160-161 that returns the port whatever the probe said.
ProbeIgnored(r) ==
    /\ r \in Int
    /\ gpc' = "returned"

\* lines 160-161: return the port when the probe failed, else draw again.
ProbeResult(r) ==
    IF r # 0
      THEN gpc' = "returned"
      ELSE gpc' = "randint"

ConnectEx ==
    /\ gpc = "connect"
    /\ probe' = [port |-> drawn, result |-> connect_ex(drawn), bound |-> drawn \in busy]
    /\ ProbeResult(connect_ex(drawn))
    /\ UNCHANGED <<bpc, bitcoind_process, proc, btrace, starts, dpc, entry,
                   variant, mode, timeout, rtimeout, file, bootLen, seekPos,
                   pos, ports, now, start_time, time_tls, reqDoneAt,
                   emittedInTime, daemon, rpc_up, node_rpc, rpc_ports,
                   outcome, listed, nodes, tpc, cur, attempts, last, made,
                   returned, leaked, tls, settings, listening, range, drawn,
                   busy, extra_args, daemon_settings, built>>

\* Another process of the host starts or stops listening on a port.
PortBinds ==
    /\ \E p \in Ports \ busy : busy' = busy \cup {p}
    /\ UNCHANGED <<bpc, bitcoind_process, proc, btrace, starts, dpc, entry,
                   variant, mode, timeout, rtimeout, file, bootLen, seekPos,
                   pos, ports, now, start_time, time_tls, reqDoneAt,
                   emittedInTime, daemon, rpc_up, node_rpc, rpc_ports,
                   outcome, listed, nodes, tpc, cur, attempts, last, made,
                   returned, leaked, tls, settings, listening, gpc, range,
                   drawn, probe, extra_args, daemon_settings, built>>

PortReleases ==
    /\ \E p \in busy : busy' = busy \ {p}
    /\ UNCHANGED <<bpc, bitcoind_process, proc, btrace, starts, dpc, entry,
                   variant, mode, timeout, rtimeout, file, bootLen, seekPos,
                   pos, ports, now, start_time, time_tls, reqDoneAt,
                   emittedInTime, daemon, rpc_up, node_rpc, rpc_ports,
                   outcome, listed, nodes, tpc, cur, attempts, last, made,
                   returned, leaked, tls, settings, listening, gpc, range,
                   drawn, probe, extra_args, daemon_settings, built>>

NextAlloc ==
    \/ GetPortCall
    \/ RandInt
    \/ ConnectEx
    \/ PortBinds
    \/ PortReleases

(***************************************************************************)
(* is_option_set and the setup_*_daemon methods: which default settings    *)
(* a daemon gets for a given extra_args.  An argument is the sequence of   *)
(* the pieces of its text, so that startswith is the prefix test.          *)
(***************************************************************************)
ArgsIdle ==
    /\ extra_args = <<>>
    /\ daemon_settings = <<>>
    /\ built = FALSE

\* The flags of the setup methods, as written in their is_option_set calls.
Flag(v, purpose) ==
    CASE v = "florestad" /\ purpose = "data_dir"     -> <<"--data-dir">>
      [] v = "florestad" /\ purpose = "rpc"          -> <<"--rpc-address">>
      [] v = "florestad" /\ purpose = "electrum"     -> <<"--electrum-address">>
      [] v = "florestad" /\ purpose = "electrum_tls" -> <<"--electrum-address", "-tls">>
      [] v = "utreexod" /\ purpose = "data_dir"      -> <<"--datadir">>
      [] v = "utreexod" /\ purpose = "peer"          -> <<"--listen">>
      [] v = "utreexod" /\ purpose = "rpc"           -> <<"--rpclisten">>
      [] v = "utreexod" /\ purpose = "electrum"      -> <<"--electrumlisteners">>
      [] v = "utreexod" /\ purpose = "electrum_tls"  -> <<"--tlselectrumlisteners">>
      [] v = "bitcoind" /\ purpose = "data_dir"      -> <<"-datadir">>
      [] v = "bitcoind" /\ purpose = "peer"          -> <<"-bind">>
      [] v = "bitcoind" /\ purpose = "rpc"           -> <<"-rpcbind">>

\* The flags a variant has a default for, whatever tls is.
AllPurposes(v) == {"data_dir"} \cup Purposes(v, TRUE)

\* f"{flag}={value}"
Arg(flag, value) == flag \o <<"=", value>>

\* An argument that is none of the variant's flags.
OtherArg == <<"--other", "=", "caller">>

\* The extra_args a test may pass: up to MaxArgs arguments, each one of the
\* variant's flags with a value of the caller, or another argument.
ArgChoices(v) == {Arg(Flag(v, k), "caller") : k \in AllPurposes(v)} \cup {OtherArg}

ArgLists(v) == UNION {[1..n -> ArgChoices(v)] : n \in 0..MaxArgs}

\* arg.startswith(option)
startswith(arg, option) ==
    /\ Len(option) <= Len(arg)
    /\ SubSeq(arg, 1, Len(option)) = option

\* is_option_set, lines 192-197.
is_option_set(extra, option) ==
    \E i \in 1..Len(extra) : startswith(extra[i], option)

\* "if not self.is_option_set(extra_args, flag): default_args.append(...)"
Default(v, purpose, extra) ==
    IF is_option_set(extra, Flag(v, purpose))
      THEN <<>>
      ELSE <<Arg(Flag(v, purpose), "default")>>

\* setup_florestad_daemon, lines 234-256: default_args.
FlorestadDefaults(t, extra) ==
    Default("florestad", "data_dir", extra)
        \o Default("florestad", "rpc", extra)
        \o Default("florestad", "electrum", extra)
        \o (IF t
              THEN <<<<"--enable-electrum-tls">>,
                     Arg(<<"--tls-key-path">>, "key"),
                     Arg(<<"--tls-cert-path">>, "cert")>>
                       \o Default("florestad", "electrum_tls", extra)
              ELSE <<>>)

\* setup_utreexod_daemon, lines 275-300: default_args.
UtreexodDefaults(t, extra) ==
    Default("utreexod", "data_dir", extra)
        \o Default("utreexod", "peer", extra)
        \o Default("utreexod", "rpc", extra)
        \o Default("utreexod", "electrum", extra)
        \o (IF t
              THEN <<Arg(<<"--rpckey">>, "key"), Arg(<<"--rpccert">>, "cert")>>
                       \o Default("utreexod", "electrum_tls", extra)
              ELSE <<<<"--notls">>>>)

\* setup_bitcoind_daemon, lines 314-324: default_args.
BitcoindDefaults(extra) ==
    Default("bitcoind", "data_dir", extra)
        \o Default("bitcoind", "peer", extra)
        \o (IF is_option_set(extra, Flag("bitcoind", "rpc"))
              THEN <<>>
              ELSE <<Arg(<<"-rpcallowip">>, "127.0.0.1"),
                     Arg(Flag("bitcoind", "rpc"), "default")>>)

DefaultArgs(v, t, extra) ==
    CASE v = "florestad" -> FlorestadDefaults(t, extra)
      [] v = "utreexod"  -> UtreexodDefaults(t, extra)
      [] v = "bitcoind"  -> BitcoindDefaults(extra)

\* add_node's call of the variant's setup method: the daemon gets
\* default_args, then extra_args.
setup_daemon ==
    /\ ~built
    /\ daemon_settings' = DefaultArgs(variant, tls, extra_args) \o extra_args
    /\ built' = TRUE
    /\ UNCHANGED <<bpc, bitcoind_process, proc, btrace, starts, dpc, entry,
                   variant, mode, timeout, rtimeout, file, bootLen, seekPos,
                   pos, ports, now, start_time, time_tls, reqDoneAt,
                   emittedInTime, daemon, rpc_up, node_rpc, rpc_ports,
                   outcome, listed, nodes, tpc, cur, attempts, last, made,
                   returned, leaked, tls, settings, listening, gpc, range,
                   drawn, probe, busy, extra_args>>

NextArgs == setup_daemon

(***************************************************************************)
(* FlorestaTestBase.detect_ports and run_node: one call, step by step.     *)
(***************************************************************************)
\* required_patterns / optional_patterns of each mode (lines 382-403)
Required(m) ==
    CASE m = "florestad" -> {"rpc", "electrum-server"}
      [] m = "utreexod" -> {"rpc", "p2p"}
      [] m = "bitcoind" -> {"rpc", "p2p"}
      [] OTHER -> {}

Optional(m) ==
    CASE m = "florestad" -> {"electrum-server-tls"}
      [] OTHER -> {}

\* The regular expression of a name in a mode, as the text it looks for.
Pattern(m, name) ==
    CASE m = "florestad" /\ name = "rpc" -> "RPC server is running at"
      [] m = "florestad" /\ name = "electrum-server" -> "Electrum Server is running at"
      [] m = "florestad" /\ name = "electrum-server-tls" -> "Electrum TLS Server is running at"
      [] m = "utreexod" /\ name = "rpc" -> "RPCS: RPC server listening on"
      [] m = "utreexod" /\ name = "p2p" -> "CMGR: Server listening on"
      [] m = "bitcoind" /\ name = "rpc" -> "Binding RPC on address"
      [] m = "bitcoind" /\ name = "p2p" -> "Bound to"
      [] OTHER -> "no pattern"

\* The port a line carries: the i-th line of the log carries BasePort + i,
\* so that no two lines carry the same port.
BasePort == 4000

\* A log line: the text it carries and the port after it.  A line of any
\* other text matches no pattern.
LineOf(text, port) == [text |-> text, port |-> port]

JunkLine == LineOf("other", 0)

\* The lines that a daemon of variant v may append to a log of length len:
\* one of its readiness lines, or another line.
LinesOf(v, len) ==
    {LineOf(Pattern(v, n), BasePort + len + 1) : n \in Required(v) \cup Optional(v)}
        \cup {JunkLine}

\* pattern.search(line)
Matches(m, name, line) == line.text = Pattern(m, name)

NoPorts == [n \in {} |-> 0]

\* A variant of the matching in which a later matching line overwrites the
\* port of a name.
MatchLineLastWins(m, p, line) ==
    LET hit == {n \in Required(m) \cup Optional(m) : Matches(m, n, line)}
    IN  [n \in DOMAIN p \cup hit |-> IF n \in hit THEN line.port ELSE p[n]]

\* The two for loops of lines 419-431 over one line: a name not yet in
\* ports whose pattern matches gets int(match.group(1)).
MatchLine(m, p, line) ==
    LET hit == {n \in (Required(m) \cup Optional(m)) \ DOMAIN p : Matches(m, n, line)}
    IN  [n \in DOMAIN p \cup hit |-> IF n \in DOMAIN p THEN p[n] ELSE line.port]

\* A variant of the completeness test that one required name satisfies.
AnyRequired(m, p) == Required(m) \cap DOMAIN p # {}

\* all(name in ports for name in required_patterns)
AllRequired(m, p) == Required(m) \subseteq DOMAIN p

\* the while loop of detect_ports is running
Active == dpc \in {"top", "check", "sleep"}

\* Every required pattern of mode m has a line in f after position from.
Emitted(m, f, from) ==
    \A n \in Required(m) : \E i \in (from + 1)..Len(f) : Matches(m, n, f[i])

\* where the model's clock stops
MaxTime == DefaultTimeout + 2

\* the clock after dt more poll intervals
Later(dt) == IF now + dt > MaxTime THEN MaxTime ELSE now + dt

DetectIdle ==
    /\ dpc = "idle"
    /\ entry = "none"
    /\ variant \in Variants
    /\ mode = "none"
    /\ timeout = DefaultTimeout
    /\ rtimeout = DefaultTimeout
    /\ bootLen = 0
    /\ seekPos = 0
    /\ pos = 0
    /\ ports = NoPorts
    /\ now = 0
    /\ start_time = 0
    /\ time_tls = NoTime
    /\ reqDoneAt = NoTime
    /\ emittedInTime = FALSE
    /\ daemon = "created"
    /\ rpc_up = FALSE
    /\ node_rpc = "None"
    /\ rpc_ports = NoPorts
    /\ outcome = "none"
    /\ listed = {}

\* A node of some variant, built by add_node and not yet started.  The log
\* file of the test may hold a line of an earlier run.
InitDetect ==
    /\ StopIdle
    /\ DetectIdle
    /\ NodesIdle
    /\ PortsIdle
    /\ AllocIdle
    /\ ArgsIdle
    /\ tls = FALSE
    /\ file \in {<<>>} \cup {<<l>> : l \in LinesOf(variant, 0)}

\* run_node, line 447: node.daemon.start().
CallRunNode ==
    /\ dpc = "idle"
    /\ \E t \in {ShortTimeout, DefaultTimeout} : rtimeout' = t
    /\ entry' = "run_node"
    /\ daemon' = "running"
    /\ bootLen' = Len(file)
    /\ dpc' = "open"
    /\ UNCHANGED <<bpc, bitcoind_process, proc, btrace, starts, variant,
                   mode, timeout, file, seekPos, pos, ports, now, start_time,
                   time_tls, reqDoneAt, emittedInTime, rpc_up, node_rpc,
                   rpc_ports, outcome, listed, nodes, tpc, cur, attempts,
                   last, made, returned, leaked, tls, settings, listening,
                   gpc, range, drawn, probe, busy, extra_args,
                   daemon_settings, built>>

\* run_node, lines 449-452: open the log and call detect_ports with the
\* node's variant and no timeout, so with the default one.
OpenLog ==
    /\ dpc = "open"
    /\ mode' = variant
    /\ timeout' = DefaultTimeout
    /\ pos' = 0
    /\ dpc' = "seek"
    /\ UNCHANGED <<bpc, bitcoind_process, proc, btrace, starts, entry,
                   variant, rtimeout, file, bootLen, seekPos, ports, now,
                   start_time, time_tls, reqDoneAt, emittedInTime, daemon,
                   rpc_up, node_rpc, rpc_ports, outcome, listed, nodes, tpc,
                   cur, attempts, last, made, returned, leaked, tls,
                   settings, listening, gpc, range, drawn, probe, busy,
                   extra_args, daemon_settings, built>>

\* A test calls detect_ports itself, on a log file it opened.
CallDetect ==
    /\ dpc = "idle"
    /\ \E m \in {variant, "unsupported"}, t \in {ShortTimeout, DefaultTimeout} :
           /\ mode' = m
           /\ timeout' = t
    /\ entry' = "detect_ports"
    /\ bootLen' = Len(file)
    /\ pos' = 0
    /\ dpc' = "seek"
    /\ UNCHANGED <<bpc, bitcoind_process, proc, btrace, starts, variant,
                   rtimeout, file, seekPos, ports, now, start_time, time_tls,
                   reqDoneAt, emittedInTime, daemon, rpc_up, node_rpc,
                   rpc_ports, outcome, listed, nodes, tpc, cur, attempts,
                   last, made, returned, leaked, tls, settings, listening,
                   gpc, range, drawn, probe, busy, extra_args,
                   daemon_settings, built>>

\* A variant of the seek that rewinds: log_file.seek(0, 0).
seek_0_0(f) == 0

\* line 408, log_file.seek(0, 2): the read position becomes the end of the
\* file, counted in lines.
seek_0_2(f) == Len(f)

\* detect_ports, lines 382-411: the mode's patterns, then seek to the end.
SeekEnd ==
    /\ dpc = "seek"
    /\ IF mode \in Variants
         THEN /\ ports' = NoPorts
              /\ pos' = seek_0_2(file)
              /\ seekPos' = seek_0_2(file)
              /\ start_time' = now
              /\ time_tls' = NoTime
              /\ dpc' = "top"
              /\ UNCHANGED outcome
         ELSE /\ outcome' = "ValueError"
              /\ dpc' = "raised"
              /\ UNCHANGED <<ports, pos, seekPos, start_time, time_tls>>
    /\ UNCHANGED <<bpc, bitcoind_process, proc, btrace, starts, entry,
                   variant, mode, timeout, rtimeout, file, bootLen, now,
                   reqDoneAt, emittedInTime, daemon, rpc_up, node_rpc,
                   rpc_ports, listed, nodes, tpc, cur, attempts, last, made,
                   returned, leaked, tls, settings, listening, gpc, range,
                   drawn, probe, busy, extra_args, daemon_settings, built>>

\* lines 441-443: the message of the TimeoutError, list(required_patterns).
TimeoutNames(m, p) == Required(m)

\* lines 413-431: the loop condition, readline, and the matching of a line,
\* which takes dt poll intervals.  An empty read sleeps; past the timeout
\* the loop ends in TimeoutError.
LoopBody(dt) ==
    IF now - start_time <= timeout
      THEN IF pos < Len(file)
             THEN LET line == file[pos + 1]
                      np == MatchLine(mode, ports, line)
                  IN  /\ pos' = pos + 1
                      /\ ports' = np
                      /\ reqDoneAt' = IF AllRequired(mode, np) /\ ~AllRequired(mode, ports)
                                        THEN now ELSE reqDoneAt
                      /\ now' = Later(dt)
                      /\ dpc' = "check"
                      /\ UNCHANGED <<outcome, listed>>
             ELSE /\ dpc' = "sleep"
                  /\ UNCHANGED <<pos, ports, reqDoneAt, now, outcome, listed>>
      ELSE /\ outcome' = "TimeoutError"
           /\ listed' = TimeoutNames(mode, ports)
           /\ dpc' = "raised"
           /\ UNCHANGED <<pos, ports, reqDoneAt, now>>

LoopTop ==
    /\ dpc = "top"
    /\ \E dt \in 0..MaxDelay : LoopBody(dt)
    /\ UNCHANGED <<bpc, bitcoind_process, proc, btrace, starts, entry,
                   variant, mode, timeout, rtimeout, file, bootLen, seekPos,
                   start_time, time_tls, emittedInTime, daemon, rpc_up,
                   node_rpc, rpc_ports, nodes, tpc, cur, attempts, last,
                   made, returned, leaked, tls, settings, listening, gpc,
                   range, drawn, probe, busy, extra_args, daemon_settings,
                   built>>

\* line 416: time.sleep(0.1) takes the interval, or somewhat longer.
Sleep ==
    /\ dpc = "sleep"
    /\ \E dt \in 0..MaxDelay : now' = Later(SleepTicks + dt)
    /\ dpc' = "top"
    /\ UNCHANGED <<bpc, bitcoind_process, proc, btrace, starts, entry,
                   variant, mode, timeout, rtimeout, file, bootLen, seekPos,
                   pos, ports, start_time, time_tls, reqDoneAt,
                   emittedInTime, daemon, rpc_up, node_rpc, rpc_ports,
                   outcome, listed, nodes, tpc, cur, attempts, last, made,
                   returned, leaked, tls, settings, listening, gpc, range,
                   drawn, probe, busy, extra_args, daemon_settings, built>>

\* detect_ports returns ports: to the test, or to run_node's line 452.
Return ==
    IF entry = "run_node"
      THEN /\ dpc' = "setrpc"
           /\ UNCHANGED outcome
      ELSE /\ dpc' = "returned"
           /\ outcome' = "ports"

\* lines 433-439, reached after a line was matched.
CheckBody ==
    IF AllRequired(mode, ports)
      THEN IF Optional(mode) = {}
             THEN Return /\ UNCHANGED time_tls
             ELSE IF time_tls = NoTime
                    THEN /\ time_tls' = now
                         /\ dpc' = "top"
                         /\ UNCHANGED outcome
                    ELSE IF now - time_tls >= TlsPeriod
                           THEN Return /\ UNCHANGED time_tls
                           ELSE /\ dpc' = "top"
                                /\ UNCHANGED <<time_tls, outcome>>
      ELSE /\ dpc' = "top"
           /\ UNCHANGED <<time_tls, outcome>>

CheckDone ==
    /\ dpc = "check"
    /\ CheckBody
    /\ UNCHANGED <<bpc, bitcoind_process, proc, btrace, starts, entry,
                   variant, mode, timeout, rtimeout, file, bootLen, seekPos,
                   pos, ports, now, start_time, reqDoneAt, emittedInTime,
                   daemon, rpc_up, node_rpc, rpc_ports, listed, nodes, tpc,
                   cur, attempts, last, made, returned, leaked, tls,
                   settings, listening, gpc, range, drawn, probe, busy,
                   extra_args, daemon_settings, built>>

\* run_node, lines 452-460: store the ports and build the RPC client.
SetRpc ==
    /\ dpc = "setrpc"
    /\ rpc_ports' = ports
    /\ node_rpc' = "RPC"
    /\ dpc' = "waitrpc"
    /\ UNCHANGED <<bpc, bitcoind_process, proc, btrace, starts, entry,
                   variant, mode, timeout, rtimeout, file, bootLen, seekPos,
                   pos, ports, now, start_time, time_tls, reqDoneAt,
                   emittedInTime, daemon, rpc_up, outcome, listed, nodes,
                   tpc, cur, attempts, last, made, returned, leaked, tls,
                   settings, listening, gpc, range, drawn, probe, busy,
                   extra_args, daemon_settings, built>>

\* node.rpc.wait_for_connections(opened=True, timeout): it returns once a
\* connection to the RPC port opens and raises when none opened before its
\* timeout.
WaitOpened(up) == IF up THEN "started" ELSE "RpcTimeout"

\* run_node, lines 462-463.
WaitForConnections ==
    /\ dpc = "waitrpc"
    /\ outcome' = WaitOpened(rpc_up)
    /\ dpc' = IF outcome' = "started" THEN "returned" ELSE "raised"
    /\ UNCHANGED <<bpc, bitcoind_process, proc, btrace, starts, entry,
                   variant, mode, timeout, rtimeout, file, bootLen, seekPos,
                   pos, ports, now, start_time, time_tls, reqDoneAt,
                   emittedInTime, daemon, rpc_up, node_rpc, rpc_ports,
                   listed, nodes, tpc, cur, attempts, last, made, returned,
                   leaked, tls, settings, listening, gpc, range, drawn,
                   probe, busy, extra_args, daemon_settings, built>>

\* A daemon appends a line to the log: from the moment it was started (or,
\* for a direct detect_ports call, from the call on) until the call ends.
WriteLine ==
    /\ dpc \in {"open", "seek", "top", "check", "sleep"}
    /\ Len(file) < MaxLines
    /\ \E l \in LinesOf(variant, Len(file)) :
           /\ file' = Append(file, l)
           /\ emittedInTime' =
                 \/ emittedInTime
                 \/ /\ Active
                    /\ now - start_time < timeout
                    /\ ~Emitted(mode, file, seekPos)
                    /\ Emitted(mode, Append(file, l), seekPos)
    /\ UNCHANGED <<bpc, bitcoind_process, proc, btrace, starts, dpc, entry,
                   variant, mode, timeout, rtimeout, bootLen, seekPos, pos,
                   ports, now, start_time, time_tls, reqDoneAt, daemon,
                   rpc_up, node_rpc, rpc_ports, outcome, listed, nodes, tpc,
                   cur, attempts, last, made, returned, leaked, tls,
                   settings, listening, gpc, range, drawn, probe, busy,
                   extra_args, daemon_settings, built>>

\* The started daemon opens its RPC port (the harness looks at it at line
\* 462 only).
RpcUp ==
    /\ daemon = "running"
    /\ ~rpc_up
    /\ dpc = "waitrpc"
    /\ rpc_up' = TRUE
    /\ UNCHANGED <<bpc, bitcoind_process, proc, btrace, starts, dpc, entry,
                   variant, mode, timeout, rtimeout, file, bootLen, seekPos,
                   pos, ports, now, start_time, time_tls, reqDoneAt,
                   emittedInTime, daemon, node_rpc, rpc_ports, outcome,
                   listed, nodes, tpc, cur, attempts, last, made, returned,
                   leaked, tls, settings, listening, gpc, range, drawn,
                   probe, busy, extra_args, daemon_settings, built>>

NextDetect ==
    \/ CallRunNode
    \/ OpenLog
    \/ CallDetect
    \/ SeekEnd
    \/ LoopTop
    \/ Sleep
    \/ CheckDone
    \/ SetRpc
    \/ WaitForConnections
    \/ WriteLine
    \/ RpcUp

(***************************************************************************)
(* Specifications.                                                         *)
(***************************************************************************)
Init ==
    /\ StopIdle
    /\ DetectIdle
    /\ NodesIdle
    /\ PortsIdle
    /\ AllocIdle
    /\ ArgsIdle
    /\ tls = FALSE
    /\ variant = "florestad"
    /\ file = <<>>

Spec == Init /\ [][Next]_vars

InitStop ==
    /\ StopIdle
    /\ DetectIdle
    /\ NodesIdle
    /\ PortsIdle
    /\ AllocIdle
    /\ ArgsIdle
    /\ tls = FALSE
    /\ variant = "bitcoind"
    /\ file = <<>>

SpecStop == InitStop /\ [][NextStop]_vars

\* Every call returns: each step of stop_bitcoind is bounded by a timeout
\* or by the exit of a process that was sent SIGKILL, which the operating
\* system enforces.
KilledExit == ("kill" \in proc.got) /\ ProcExit

SpecStopFair ==
    /\ InitStop
    /\ [][NextStop]_vars
    /\ WF_vars(StopStep)
    /\ WF_vars(KilledExit)

SpecDetect == InitDetect /\ [][NextDetect]_vars


InitPorts ==
    /\ StopIdle
    /\ DetectIdle
    /\ NodesIdle
    /\ PortsIdle
    /\ AllocIdle
    /\ ArgsIdle
    /\ tls \in (IF variant = "florestad" THEN BOOLEAN ELSE {FALSE})
    /\ file = <<>>

SpecPorts == InitPorts /\ [][NextPorts]_vars

InitAlloc ==
    /\ StopIdle
    /\ DetectIdle
    /\ NodesIdle
    /\ PortsIdle
    /\ AllocIdle
    /\ ArgsIdle
    /\ tls = FALSE
    /\ variant = "florestad"
    /\ file = <<>>

SpecAlloc == InitAlloc /\ [][NextAlloc]_vars

\* The loop of get_available_random_port keeps running: a draw and a probe
\* that can be made are made.
SpecAllocFair ==
    /\ InitAlloc
    /\ [][NextAlloc]_vars
    /\ WF_vars(RandInt)
    /\ WF_vars(ConnectEx)

InitArgs ==
    /\ StopIdle
    /\ DetectIdle
    /\ NodesIdle
    /\ PortsIdle
    /\ AllocIdle
    /\ tls \in BOOLEAN
    /\ file = <<>>
    /\ extra_args \in ArgLists(variant)
    /\ daemon_settings = <<>>
    /\ built = FALSE

SpecArgs == InitArgs /\ [][NextArgs]_vars
(***************************************************************************)
(* Claims about stop_bitcoind.                                             *)
(***************************************************************************)
InTrace(e) == \E i \in 1..Len(btrace) : btrace[i] = e

\* C4: a process that exits within the graceful wait that follows a
\* delivered stop request is never sent the terminate signal nor the kill
\* signal, neither by this call nor later.
C4_GracefulExitNoSignal ==
    InTrace("wait15_exited") =>
        /\ ~InTrace("terminate")
        /\ ~InTrace("kill")
        /\ proc.got \cap {"term", "kill"} = {}

C4_Witness ==
    /\ InTrace("wait15_exited")
    /\ bpc = "idle"
    /\ bitcoind_process = "None"

\* C5: every call of stop_bitcoind on a live handle ends with the process
\* exited and the handle cleared, and a process that honours neither the
\* stop request nor SIGTERM is eventually sent SIGKILL.
C5_AlwaysReaped ==
    /\ (bpc # "idle") ~>
          (bpc = "idle" /\ bitcoind_process = "None" /\ proc.state = "exited")
    /\ (bpc = "rpc_stop" /\ proc.obeys = {}) ~> ("kill" \in proc.got)
    /\ [](bpc = "clear" => proc.state = "exited")

C5_Witness ==
    /\ proc.obeys = {}
    /\ InTrace("reaped")
    /\ bpc = "idle"
    /\ bitcoind_process = "None"
    /\ proc.state = "exited"

(***************************************************************************)
(* Claims about run_node and detect_ports.                                 *)
(***************************************************************************)
\* detect_ports has returned its mapping
Detected ==
    \/ dpc \in {"setrpc", "waitrpc"}
    \/ outcome \in {"ports", "started", "RpcTimeout"}

\* the call is over, one way or the other
Finished == Detected \/ dpc = "raised"

\* the lines the loop has read match every required pattern of the mode
ReadAll(upto) ==
    \A n \in Required(mode) :
        \E i \in (seekPos + 1)..upto : Matches(mode, n, file[i])

\* the port of the first line read by the loop that matches name n
FirstPort(n) ==
    LET idx == {i \in (seekPos + 1)..pos : Matches(mode, n, file[i])}
    IN  IF idx = {} THEN NoTime
        ELSE file[CHOOSE i \in idx : \A j \in idx : i <= j].port

NoOptional == mode \in Variants /\ Optional(mode) = {}

\* C2: run_node returns normally only with node.rpc set, the ports of every
\* required pattern of the node's variant taken from a matching log line,
\* and the RPC wait succeeded; a failed detection or a failed RPC wait ends
\* the call by raising.
C2_ReadyOnlyAfterDetection ==
    /\ (entry = "run_node" /\ dpc = "returned") =>
          /\ outcome = "started"
          /\ node_rpc = "RPC"
          /\ rpc_up
          /\ Required(variant) \subseteq DOMAIN rpc_ports
          /\ \A n \in Required(variant) :
                \E i \in 1..Len(file) :
                    Matches(variant, n, file[i]) /\ file[i].port = rpc_ports[n]
    /\ (outcome \in {"TimeoutError", "RpcTimeout", "ValueError"}) => dpc = "raised"

C2_Witness ==
    /\ entry = "run_node"
    /\ dpc = "returned"
    /\ variant = "florestad"
    /\ node_rpc = "RPC"

\* C9 as stated: in a mode without optional patterns, when lines matching
\* every required pattern are written after the seek and before the
\* timeout, the call ends by returning a mapping of exactly the required
\* names, each with the port of its first matching line.
C9_ReturnsWhenEmittedInTime ==
    (NoOptional /\ emittedInTime /\ Finished) =>
        /\ Detected
        /\ DOMAIN ports = Required(mode)
        /\ \A n \in Required(mode) : ports[n] = FirstPort(n)

\* C9, amended: in a mode without optional patterns, as soon as the loop
\* has read (before its deadline check fails) lines matching every required
\* pattern, detect_ports returns, on the very line that completes the set,
\* a mapping of exactly the required names, each with the port of the first
\* line read that matches it; and it returns in no other case.
C9_ReturnsOnCompletingLine ==
    NoOptional =>
        /\ Detected =>
              /\ DOMAIN ports = Required(mode)
              /\ \A n \in Required(mode) : ports[n] = FirstPort(n)
              /\ ReadAll(pos)
              /\ ~ReadAll(pos - 1)
        /\ (dpc \in {"top", "sleep"}) => ~ReadAll(pos)
        /\ (outcome = "TimeoutError") => ~ReadAll(pos)

C9_Witness ==
    /\ mode = "utreexod"
    /\ Detected
    /\ pos = seekPos + 3
    /\ Matches(mode, "rpc", file[seekPos + 1])
    /\ Matches(mode, "rpc", file[seekPos + 2])
    /\ ports["rpc"] = file[seekPos + 1].port

\* no line of the optional pattern was written after the seek
NoOptionalLine ==
    \A n \in Optional(mode) :
        \A i \in (seekPos + 1)..Len(file) : ~Matches(mode, n, file[i])

\* C10: with optional patterns, once every required pattern has matched and
\* no optional line arrives, detect_ports has returned by the end of the
\* grace period (one poll interval granted), lines or no lines.
C10_ReturnsWithinGrace ==
    ( /\ mode \in Variants
      /\ Optional(mode) # {}
      /\ reqDoneAt # NoTime
      /\ NoOptionalLine
      /\ now > reqDoneAt + TlsPeriod + SleepTicks ) => Detected


(***************************************************************************)
(* Node lifecycle and registry.                                            *)
(***************************************************************************)
\* A step in which a daemon process of node i is spawned.
Spawned(i) ==
    /\ i <= Len(nodes')
    /\ nodes'[i].process = "running"
    /\ \/ nodes[i].process # "running"
       \/ leaked' > leaked /\ last'.node = i

\* C1: a Node.start on a node whose daemon is running raises RuntimeError and
\* starts no process (the node and its daemon are left as they were), and no
\* Node.start ever leaves a second live process of the node behind.
C1_StartOnRunningRaises ==
    [][\A i \in 1..Len(nodes) :
          NodeStart(i) =>
              /\ leaked' = leaked
              /\ IsRunning(nodes[i]) =>
                     /\ nodes' = nodes
                     /\ last'.result = "RuntimeError"]_vars

\* C1: a Node.start was called on a running node, it raised, and the node
\* still has its one process.
C1_Witness ==
    /\ last.op = "Node.start"
    /\ last.wasRunning
    /\ last.result = "RuntimeError"
    /\ nodes[last.node].process = "running"
    /\ leaked = 0

\* C3: once a stop of a node has been carried out (Node.stop returned, or
\* stop_all_nodes sent it its stop), no later step spawns its daemon again.
C3_StoppedIsTerminal ==
    [][\A i \in 1..Len(nodes) : nodes[i].stopped => ~Spawned(i)]_vars

\* C6: when stop_all_nodes is over it has returned without raising and has
\* attempted a stop on every registered node, in registration order.
C6_StopAllAttemptsEveryNode ==
    (last.op = "stop_all_nodes" /\ tpc = "idle") =>
        /\ last.result = "returned"
        /\ attempts = [i \in 1..Len(nodes) |-> i]

\* C7: when a Node.stop called on a running node with an RPC client is over,
\* it has returned (not raised) and the node's process no longer runs.
C7_StopReturnsStopped ==
    (last.op = "Node.stop" /\ last.wasRunning /\ last.hadRpc /\ tpc = "idle") =>
        /\ last.result = "returned"
        /\ nodes[last.node].process # "running"

(***************************************************************************)
(* Default ports of add_node.                                              *)
(***************************************************************************)
\* C8: two added nodes of the same variant never hold the same port for the
\* same purpose.
C8_SamePurposePortsDiffer ==
    \A i, j \in 1..Len(settings) :
        (i # j /\ settings[i].variant = settings[j].variant) =>
            \A k \in DOMAIN settings[i].ports \cap DOMAIN settings[j].ports :
                settings[i].ports[k] # settings[j].ports[k]

(***************************************************************************)
(* detect_ports: the timeout error, termination, first match.              *)
(***************************************************************************)
\* C11: when detect_ports raises TimeoutError with a required pattern
\* unmatched, the names its message lists are exactly the required names
\* that are not in ports.
C11_TimeoutListsMissing ==
    (outcome = "TimeoutError" /\ ~AllRequired(mode, ports)) =>
        listed = Required(mode) \ DOMAIN ports

\* C12: the loop of detect_ports runs no longer than one poll (a sleep and
\* its delay) past its timeout, and inside run_node that timeout is the one
\* the caller gave run_node.
C12_EndsAtCallersDeadline ==
    Active =>
        /\ now - start_time <= timeout + SleepTicks + MaxDelay
        /\ entry = "run_node" => timeout = rtimeout

(***************************************************************************)
(* get_available_random_port.                                              *)
(***************************************************************************)
\* C13: the port get_available_random_port returns lies in [start, end] and
\* is the port of its last probe, which failed because nothing was bound to
\* the port at that moment.
C13_ReturnsProbedFreePort ==
    gpc = "returned" =>
        /\ range.start <= drawn /\ drawn <= range.end
        /\ probe.port = drawn
        /\ probe.result # 0
        /\ ~probe.bound

\* C13: a call returned a port of a range in which another port is bound.
C13_Witness ==
    /\ gpc = "returned"
    /\ range.start < range.end
    /\ \E q \in range.start..range.end : q # drawn /\ q \in busy

(***************************************************************************)
(* The settings add_node builds.                                           *)
(***************************************************************************)
\* The flag of an argument: its text before the "=".
FlagOf(arg) ==
    LET eq == {i \in 1..Len(arg) : arg[i] = "="}
    IN  IF eq = {} THEN arg
        ELSE SubSeq(arg, 1, (CHOOSE i \in eq : \A j \in eq : i <= j) - 1)

\* extra_args holds the flag itself.
Specified(extra, flag) == \E i \in 1..Len(extra) : FlagOf(extra[i]) = flag

\* C15: the settings are generated defaults followed by extra_args, and a
\* flag of the table (with the TLS one only when tls is requested) has a
\* generated default exactly when extra_args does not hold that flag itself.
C15_DefaultsForUnspecifiedFlags ==
    built =>
        LET n == Len(daemon_settings) - Len(extra_args)
            defaults == {daemon_settings[i] : i \in 1..n}
        IN  /\ n >= 0
            /\ SubSeq(daemon_settings, n + 1, Len(daemon_settings)) = extra_args
            /\ \A k \in {"data_dir"} \cup Purposes(variant, tls) :
                   (Arg(Flag(variant, k), "default") \in defaults)
                       <=> ~Specified(extra_args, Flag(variant, k))

(***************************************************************************)
(* The registry, Node.stop on a stopped node, stop_all_nodes.              *)
(***************************************************************************)
\* C16: the registry holds exactly the nodes the successful add_node calls
\* since setup_method returned, in call order: get_node(i) is the node the
\* i-th of them returned.  (A failed add_node returns no node, so it must
\* leave the registry as it was.)
C16_RegistryIsReturnedNodes ==
    /\ Len(nodes) = Len(returned)
    /\ \A i \in 0..(Len(returned) - 1) : get_node(i).id = returned[i + 1]
    /\ get_node(Len(returned)) = "IndexError"

\* C16: two nodes were added, and then an add_node failed.
C16_Witness ==
    /\ Len(returned) = 2
    /\ last.op = "add_node"
    /\ last.result \in {"ValueError", "RuntimeError"}

\* C17: a Node.stop on a node whose daemon is not running returns None at
\* once and leaves every node, with its process, its RPC client and the
\* requests its process got, as it was.
C17_StopOnStoppedIsNoOp ==
    [][\A i \in 1..Len(nodes) :
          (NodeStop(i) /\ ~IsRunning(nodes[i])) =>
              /\ nodes' = nodes
              /\ tpc' = "idle"
              /\ last'.result = "None"]_vars

\* C17: Node.stop was called on a node whose process had exited and
\* returned None.
C17_Witness ==
    /\ last.op = "Node.stop"
    /\ ~last.wasRunning
    /\ last.result = "None"
    /\ nodes[last.node].process = "exited"

\* C18: when stop_all_nodes has returned, no registered node's daemon
\* process is running.
C18_NoneRunningAfterStopAll ==
    (last.op = "stop_all_nodes" /\ last.result = "returned" /\ tpc = "idle") =>
        \A i \in 1..Len(nodes) : nodes[i].process # "running"

(***************************************************************************)
(* The order of the shutdown tiers of stop_bitcoind.                       *)
(***************************************************************************)
\* how often event e is in the trace of the current call
Count(e) == Cardinality({i \in 1..Len(btrace) : btrace[i] = e})

\* event e of the trace comes directly after one of the events in before
DirectlyAfter(e, before) ==
    \A i \in 1..Len(btrace) :
        btrace[i] = e => (i > 1 /\ btrace[i - 1] \in before)

\* C19: within one stop_bitcoind call the stop request comes first and
\* once; SIGTERM is sent once at most, directly after the stop request
\* failed or its wait timed out; SIGKILL is sent once at most, directly
\* after the wait that followed SIGTERM timed out.
C19_TiersInOrder ==
    /\ Count("stop_ok") + Count("stop_raised") <= 1
    /\ Count("terminate") <= 1
    /\ Count("kill") <= 1
    /\ \A i \in 1..Len(btrace) :
           btrace[i] \in {"stop_ok", "stop_raised"} => i = 1
    /\ DirectlyAfter("wait15_timeout", {"stop_ok"})
    /\ DirectlyAfter("terminate", {"stop_raised", "wait15_timeout"})
    /\ DirectlyAfter("wait10_timeout", {"terminate"})
    /\ DirectlyAfter("kill", {"wait10_timeout"})

\* C19: a call went through all three tiers.
C19_Witness ==
    /\ InTrace("wait15_timeout")
    /\ InTrace("kill")
    /\ InTrace("cleared")

(***************************************************************************)
(* First match wins.                                                       *)
(***************************************************************************)
\* C20: during a detect_ports call a name that is in ports stays in it with
\* the same port.
C20_FirstMatchWins ==
    [][Active =>
          \A n \in DOMAIN ports :
              /\ n \in DOMAIN ports'
              /\ ports'[n] = ports[n]]_vars

\* C20: the loop has read a line that matches the pattern of a recorded
\* name and carries another port than the recorded one.
C20_Witness ==
    \E n \in DOMAIN ports :
        \E j \in (seekPos + 1)..pos :
            /\ Matches(mode, n, file[j])
            /\ file[j].port # ports[n]

(***************************************************************************)
(* Third group of claims.                                                  *)
(***************************************************************************)
\* C21: detect_ports never uses log content that was in the file when the
\* call began: its first read is at the end of the file as it is at the
\* seek, and every port it records comes from a line appended after that.
C21_OnlyLinesAfterSeek ==
    (mode \in Variants /\ (Active \/ Finished)) =>
        /\ seekPos >= bootLen
        /\ pos >= seekPos
        /\ \A n \in DOMAIN ports :
              \E i \in (seekPos + 1)..pos :
                  Matches(mode, n, file[i]) /\ file[i].port = ports[n]

\* A readiness line of an earlier run was in the file, and the call returned
\* the port of a later line for that name.
C21_Witness ==
    /\ bootLen = 1
    /\ Detected
    /\ \E n \in Required(mode) :
           /\ Matches(mode, n, file[1])
           /\ n \in DOMAIN ports
           /\ ports[n] # file[1].port

\* C22: with optional patterns, once every required name and every optional
\* name is in the mapping, detect_ports has returned it: the call is at the
\* check that follows the completing line, or it is over with the mapping.
C22_ReturnsOnFullSet ==
    ( /\ mode \in Variants
      /\ Optional(mode) # {}
      /\ Required(mode) \cup Optional(mode) \subseteq DOMAIN ports ) =>
        (dpc = "check" \/ Detected)

\* C23: for florestad, when the loop has matched every required pattern and
\* has read the Electrum TLS line (so the line was logged before the
\* required set completed or in the grace period after it), with the grace
\* period over before the deadline, the call ends by returning a mapping
\* that holds electrum-server-tls with the port of the first such line.
C23_TlsLineIsReturned ==
    ( /\ mode = "florestad"
      /\ reqDoneAt # NoTime
      /\ reqDoneAt + TlsPeriod + SleepTicks <= start_time + timeout
      /\ \E i \in (seekPos + 1)..pos : Matches(mode, "electrum-server-tls", file[i])
      /\ Finished ) =>
        /\ Detected
        /\ "electrum-server-tls" \in DOMAIN ports
        /\ ports["electrum-server-tls"] = FirstPort("electrum-server-tls")

RangeAllBound == \A p \in range.start..range.end : p \in busy

\* C25: a call of get_available_random_port on a range of which every port
\* is bound comes to an end (by an error), unless a port of the range is
\* released meanwhile.
C25_EndsOnBoundRange ==
    (gpc = "randint" /\ RangeAllBound) ~>
        (gpc \in {"returned", "raised"} \/ ~RangeAllBound)

\* C26: detect_ports ends in TimeoutError only with a required pattern of
\* the mode still unmatched; a call that matched them all early enough for
\* the grace period to end before the deadline does not end that way.
C26_TimeoutOnlyIfRequiredMissing ==
    ( /\ mode \in Variants
      /\ outcome = "TimeoutError"
      /\ reqDoneAt # NoTime => reqDoneAt + TlsPeriod + SleepTicks <= start_time + timeout ) =>
        ~AllRequired(mode, ports)

\* C27: in a node built by add_node without caller-specified ports, the
\* ports generated for different flags are pairwise distinct.
C27_PortsOfOneNodeDiffer ==
    \A i \in 1..Len(settings) :
        \A k, l \in DOMAIN settings[i].ports :
            k # l => settings[i].ports[k] # settings[i].ports[l]

\* C28: in run_node no line the started daemon writes is lost: the loop of
\* detect_ports starts reading where the log ended when the daemon was
\* started.
C28_NoLineLostBeforeSeek ==
    (entry = "run_node" /\ (Active \/ Finished)) => seekPos = bootLen

\* C29: whatever run_node and Node.start calls are made, no daemon process
\* is left running beside the one its node holds: a run_node on a node whose
\* daemon runs spawns nothing.
C29_AtMostOneProcess == leaked = 0
====
